---- MODULE Spec2Model ----
(***************************************************************************)
(* Folder & file storage engine of t8/fileserver: the catalog (folders,    *)
(* files, file_versions), the blob directory, and the express handlers of  *)
(* routes/folders, routes/files and routes/versions.                       *)
(*                                                                         *)
(* Execution model: one Node.js process, better-sqlite3 (synchronous).     *)
(* A handler body contains no await, so it runs to completion as one       *)
(* step.  Requests that carry a body (JSON for /folders/create, multipart  *)
(* for the two upload routes) are first received by asynchronous           *)
(* middleware (express.json, multer); during that phase other requests     *)
(* are served.  conn[u] is the request of caller u that is being received; *)
(* its body is known to the server only when the middleware has finished,  *)
(* which is when the handler runs.  last is the request that ended most    *)
(* recently, with its response and who produced it: the route handler, the *)
(* upload middleware, or the client by disconnecting (status 0).           *)
(*                                                                         *)
(* Text is a tuple of one-character strings.  Request parameters are raw   *)
(* strings converted by parseInt; null and NaN are the sentinels NULL and  *)
(* NaN in the integer domain.                                              *)
(***************************************************************************)
EXTENDS Integers, Sequences, FiniteSets, TLC

VARIABLES
  folders,           \* table folders: id -> row
  folderSeq,         \* sqlite_sequence of folders (largest id ever used)
  deletedFolderIds,  \* history: ids of the folder rows removed so far
  files,             \* table files: id -> row
  fileSeq,           \* sqlite_sequence of files
  file_versions,     \* table file_versions: id -> row
  versionSeq,        \* sqlite_sequence of file_versions
  disk,              \* upload directory: path -> [written, complete]
  keySeq,            \* number of storage keys generated so far
  conn,              \* per caller: the request being received
  last               \* the request that ended most recently, with its response

folderVars == <<folders, folderSeq, deletedFolderIds>>

fileVars == <<files, fileSeq, file_versions, versionSeq>>

blobVars == <<disk, keySeq>>

vars == <<folders, folderSeq, deletedFolderIds, files, fileSeq, file_versions,
          versionSeq, disk, keySeq, conn, last>>

----------------------------------------------------------------------------
(* Bounds *)
MaxFolderId == 3

MaxFileId == 1

MaxVersionId == 3

MaxKeys == 4
\* length of the original filenames given to generateUniqueFilename
MaxNameLen == 3

----------------------------------------------------------------------------
(* JavaScript / SQLite values *)
NULL == -1
NaN == -2

Users == {1, 2}

Digits == <<"0", "1", "2", "3", "4", "5", "6", "7", "8", "9">>

DecStr(n) == Digits[n + 1]

\* parseInt(raw, 10) on the raw strings the model sends
parseInt(raw) ==
  IF \E n \in 0..9 : Digits[n + 1] = raw
    THEN CHOOSE n \in 0..9 : Digits[n + 1] = raw
    ELSE NaN

\* JavaScript truthiness of a number-or-null value
Truthy(x) == x \notin {NULL, NaN, 0}

\* `raw ? parseInt(raw, 10) : null`
ParseOptionalId(raw) == IF raw = "" THEN NULL ELSE parseInt(raw)

\* better-sqlite3 binds NaN as SQL NULL
Bind(x) == IF x = NaN THEN NULL ELSE x

\* SQL `a = b`: never true when either side is NULL
SqlEq(a, b) == a # NULL /\ b # NULL /\ a = b

----------------------------------------------------------------------------
(* utils/fileUtils.ts *)
Whitespace == {" "}

RECURSIVE TrimLeft(_)
TrimLeft(s) ==
  IF s # <<>> /\ s[1] \in Whitespace THEN TrimLeft(Tail(s)) ELSE s

RECURSIVE TrimRight(_)
TrimRight(s) ==
  IF s # <<>> /\ s[Len(s)] \in Whitespace
    THEN TrimRight(SubSeq(s, 1, Len(s) - 1))
    ELSE s

\* String.prototype.trim
Trim(s) == TrimRight(TrimLeft(s))

\* s.replace(/[chars]/g, '_')
ReplaceChars(s, chars) ==
  [i \in 1..Len(s) |-> IF s[i] \in chars THEN "_" ELSE s[i]]

\* s.replace(/\.\./g, '_'): leftmost non-overlapping matches
RECURSIVE ReplaceDotDot(_)
ReplaceDotDot(s) ==
  IF Len(s) < 2 THEN s
  ELSE IF s[1] = "." /\ s[2] = "."
    THEN <<"_">> \o ReplaceDotDot(SubSeq(s, 3, Len(s)))
    ELSE <<s[1]>> \o ReplaceDotDot(Tail(s))

PathSeparators == {"/", "\\"}

ReservedChars == {"<", ">", ":", "\"", "|", "?", "*"}

sanitizeFilename(filename) ==
  Trim(ReplaceChars(ReplaceDotDot(ReplaceChars(filename, PathSeparators)),
                    ReservedChars))

\* index of the last occurrence of c in s, 0 when there is none
LastIndexOf(s, c) ==
  LET I == {i \in 1..Len(s) : s[i] = c}
  IN  IF I = {} THEN 0 ELSE CHOOSE i \in I : \A j \in I : j <= i

\* p without the separators at its end, which path.basename and
\* path.extname skip
RECURSIVE StripTrailingSeparators(_)
StripTrailingSeparators(p) ==
  IF p # <<>> /\ p[Len(p)] = "/"
    THEN StripTrailingSeparators(SubSeq(p, 1, Len(p) - 1))
    ELSE p

\* path.basename(p) (posix)
basename(p) ==
  LET q == StripTrailingSeparators(p)
  IN  SubSeq(q, LastIndexOf(q, "/") + 1, Len(q))

\* path.extname(p)
extname(p) ==
  LET b == basename(p)
      k == LastIndexOf(b, ".")
  IN  IF k <= 1 \/ b = <<".", ".">> THEN <<>> ELSE SubSeq(b, k, Len(b))

\* `${sanitized}_${timestamp}_${random}${ext}`; token stands for the pair of
\* Date.now() and Math.random()
generateUniqueFilename(originalFilename, token) ==
  LET ext == extname(originalFilename)
      b == basename(originalFilename)
      base == SubSeq(b, 1, Len(b) - Len(ext))
  IN  sanitizeFilename(base) \o <<"_", token>> \o ext

----------------------------------------------------------------------------
(* config.ts *)
uploadDir == <<"/", "u">>

\* limits.fileSize, from MAX_FILE_SIZE; the model runs with MAX_FILE_SIZE=1
maxFileSize == 1

allowedMimeTypes ==
  { "video/mp4", "video/mpeg", "video/quicktime", "video/x-msvideo",
    "video/x-ms-wmv", "video/webm",
    "audio/mpeg", "audio/mp4", "audio/wav", "audio/x-wav", "audio/ogg",
    "audio/webm",
    "image/jpeg", "image/png", "image/gif", "image/webp", "image/svg+xml",
    "image/bmp" }

isValidMimeType(mimeType) == mimeType \in allowedMimeTypes

\* upload.array('files', 10) and upload.single('file')
maxCountArray == 10

maxCountSingle == 1

----------------------------------------------------------------------------
(* Request inputs *)
OriginalNameInputs == { <<"c", ".", "m">> }

MimeTypeInputs == { "video/mp4", "text/plain" }

UploadFolderIdInputs == {"", "1"}

FileLengthInputs == {maxFileSize, maxFileSize + 1}

FileIdInputs == {DecStr(n) : n \in 1..MaxFileId}

VersionInputs == {DecStr(n) : n \in 1..(MaxVersionId + 1)}

NameInputs == { <<" ">>, <<"a">>, <<"a", " ">>, <<"/">>, <<".", ".">> }

FolderIdInputs == {DecStr(n) : n \in 1..MaxFolderId}

OptFolderIdInputs == {""} \cup FolderIdInputs

----------------------------------------------------------------------------
(* Catalog: folders table *)

\* SELECT id FROM folders WHERE id = ?
FolderExists(id) == id \in DOMAIN folders

\* as ExistingSibling, with the `IS NULL` alternative of the WHERE clause left out
ExistingSibling_noNullCase(name, parentId) ==
  {i \in DOMAIN folders :
     /\ folders[i].name = name
     /\ SqlEq(folders[i].parent_folder_id, Bind(parentId))}

\* SELECT id FROM folders WHERE name = ? AND (parent_folder_id = ? OR
\*   (parent_folder_id IS NULL AND ? IS NULL))
ExistingSibling(name, parentId) ==
  {i \in DOMAIN folders :
     /\ folders[i].name = name
     /\ \/ SqlEq(folders[i].parent_folder_id, Bind(parentId))
        \/ (folders[i].parent_folder_id = NULL /\ Bind(parentId) = NULL)}

\* UNIQUE(name, parent_folder_id): SQLite treats NULLs as distinct
FolderUniqueOK(name, parentId) ==
  ~ \E i \in DOMAIN folders :
      folders[i].name = name /\ SqlEq(folders[i].parent_folder_id, parentId)

\* FOREIGN KEY (parent_folder_id) REFERENCES folders(id), foreign_keys = ON
FolderParentFKOK(parentId) == parentId = NULL \/ parentId \in DOMAIN folders

\* id INTEGER PRIMARY KEY AUTOINCREMENT: one more than the largest id ever used
\* as NewFolderId, for a rowid without AUTOINCREMENT: one more than the
\* largest id in the table
NewFolderId_reuse ==
  IF DOMAIN folders = {} THEN 1
  ELSE (CHOOSE i \in DOMAIN folders : \A j \in DOMAIN folders : j <= i) + 1

\* id INTEGER PRIMARY KEY AUTOINCREMENT: one more than the largest id the
\* table has ever held
NewFolderId == folderSeq + 1

\* as CascadeDelete, removing the children of the deleted rows only
CascadeDelete_oneLevel(rows, ids) ==
  LET rest == [i \in DOMAIN rows \ ids |-> rows[i]]
      kids == {i \in DOMAIN rest : rest[i].parent_folder_id \in ids}
  IN  [i \in DOMAIN rest \ kids |-> rest[i]]

\* DELETE with ON DELETE CASCADE on parent_folder_id
RECURSIVE CascadeDelete(_, _)
CascadeDelete(rows, ids) ==
  LET rest == [i \in DOMAIN rows \ ids |-> rows[i]]
      kids == {i \in DOMAIN rest : rest[i].parent_folder_id \in ids}
  IN  IF kids = {} THEN rest ELSE CascadeDelete(rest, kids)

----------------------------------------------------------------------------
(* Connections and responses *)
Resp(status, error) == [status |-> status, error |-> error]

IdleConn == [pc |-> "idle"]

NoResponse == [op |-> "none", by |-> "none"]

CanStart(u) == conn[u].pc = "idle"

----------------------------------------------------------------------------
(* routes/folders.ts: POST /create *)

\* the request arrives; express.json() starts reading the body
CreateFolderReceive(u) ==
  /\ CanStart(u)
  /\ conn' = [conn EXCEPT ![u] = [pc |-> "body", op |-> "createFolder"]]
  /\ UNCHANGED <<folderVars, fileVars, blobVars, last>>

\* as CreateFolderOutcome, without the SELECT for an existing sibling: the
\* UNIQUE constraint of the table is the only guard
CreateFolderOutcome_constraintOnly(name, parentFolderId) ==
  IF name = <<>> \/ Len(Trim(name)) = 0
    THEN Resp(400, "Folder name is required")
  ELSE LET sanitizedName == sanitizeFilename(Trim(name))
           parentId == ParseOptionalId(parentFolderId)
       IN  IF Len(sanitizedName) = 0
             THEN Resp(400, "Invalid folder name")
           ELSE IF Truthy(parentId) /\ ~FolderExists(parentId)
             THEN Resp(404, "Parent folder not found")
           ELSE IF ~FolderParentFKOK(Bind(parentId))
             THEN Resp(500, "Internal server error")
           ELSE IF ~FolderUniqueOK(sanitizedName, Bind(parentId))
             THEN Resp(400, "Folder with this name already exists")
           ELSE Resp(201, "")

\* outcome of the handler body for the current catalog
CreateFolderOutcome(name, parentFolderId) ==
  IF name = <<>> \/ Len(Trim(name)) = 0
    THEN Resp(400, "Folder name is required")
  ELSE LET sanitizedName == sanitizeFilename(Trim(name))
           parentId == ParseOptionalId(parentFolderId)
       IN  IF Len(sanitizedName) = 0
             THEN Resp(400, "Invalid folder name")
           ELSE IF Truthy(parentId) /\ ~FolderExists(parentId)
             THEN Resp(404, "Parent folder not found")
           ELSE IF ExistingSibling(sanitizedName, parentId) # {}
             THEN Resp(400, "Folder with this name already exists")
           ELSE IF ~(FolderParentFKOK(Bind(parentId))
                     /\ FolderUniqueOK(sanitizedName, Bind(parentId)))
             THEN Resp(500, "Internal server error")
           ELSE Resp(201, "")

\* the body { name, parentFolderId } is complete and the handler runs
CreateFolderHandler(u, name, parentFolderId) ==
  /\ conn[u].pc = "body"
  /\ conn[u].op = "createFolder"
  /\ LET out == CreateFolderOutcome(name, parentFolderId)
         sanitizedName == sanitizeFilename(Trim(name))
         parentId == Bind(ParseOptionalId(parentFolderId))
     IN  /\ IF out.status = 201
              THEN /\ NewFolderId <= MaxFolderId
                   /\ folders' = folders @@
                        (NewFolderId :> [name |-> sanitizedName,
                                         parent_folder_id |-> parentId,
                                         created_by |-> u])
                   /\ folderSeq' = NewFolderId
              ELSE UNCHANGED <<folders, folderSeq>>
         /\ last' = [op |-> "createFolder", by |-> "handler", u |-> u,
                     status |-> out.status, error |-> out.error,
                     name |-> sanitizedName, parentId |-> parentId,
                     id |-> IF out.status = 201 THEN NewFolderId ELSE NULL]
  /\ conn' = [conn EXCEPT ![u] = IdleConn]
  /\ UNCHANGED <<deletedFolderIds, fileVars, blobVars>>

----------------------------------------------------------------------------
(* routes/folders.ts: DELETE /:folderId *)

\* as FilesAfterFolderDelete, had files.folder_id been declared
\* REFERENCES folders(id) ON DELETE CASCADE
FilesAfterFolderDelete_cascade(rows, removed) ==
  [f \in {g \in DOMAIN rows : rows[g].folder_id \notin removed} |-> rows[f]]

\* the files table after the folders in removed are deleted: folder_id was
\* added by ALTER TABLE without a foreign key, so no files row is touched
FilesAfterFolderDelete(rows, removed) == rows

\* as DeleteFolderOutcome, without the comparison of created_by with the caller
DeleteFolderOutcome_anyCaller(u, folderId) ==
  IF folderId = NaN THEN Resp(400, "Invalid folder ID")
  ELSE IF ~FolderExists(folderId) THEN Resp(404, "Folder not found")
  ELSE Resp(200, "")

DeleteFolderOutcome(u, folderId) ==
  IF folderId = NaN THEN Resp(400, "Invalid folder ID")
  ELSE IF ~FolderExists(folderId) THEN Resp(404, "Folder not found")
  ELSE IF folders[folderId].created_by # u
    THEN Resp(403, "You can only delete folders you created")
  ELSE Resp(200, "")

DeleteFolder(u, rawId) ==
  /\ CanStart(u)
  /\ LET folderId == parseInt(rawId)
         out == DeleteFolderOutcome(u, folderId)
     IN  /\ IF out.status = 200
              THEN /\ folders' = CascadeDelete(folders, {folderId})
                   /\ deletedFolderIds' = deletedFolderIds \cup
                        (DOMAIN folders \ DOMAIN folders')
              ELSE UNCHANGED <<folders, deletedFolderIds>>
         /\ files' = FilesAfterFolderDelete(files,
                                            DOMAIN folders \ DOMAIN folders')
         /\ last' = [op |-> "deleteFolder", by |-> "handler", u |-> u,
                     status |-> out.status, error |-> out.error,
                     folderId |-> folderId,
                     removed |-> DOMAIN folders \ DOMAIN folders',
                     creators |-> {folders[i].created_by :
                                     i \in DOMAIN folders \ DOMAIN folders'}]
  /\ UNCHANGED <<folderSeq, conn, fileSeq, file_versions, versionSeq, blobVars>>

----------------------------------------------------------------------------
(* routes/folders.ts: GET /contents/:folderId? (reads only) *)

\* `WHERE x = ? OR (x IS NULL AND ? IS NULL)` with both parameters bound to id
SqlEqOrBothNull(x, id) ==
  SqlEq(x, Bind(id)) \/ (x = NULL /\ Bind(id) = NULL)

ListContents(rawId) ==
  LET folderId == ParseOptionalId(rawId)
  IN  IF Truthy(folderId) /\ folderId = NaN
        THEN [status |-> 400, error |-> "Invalid folder ID",
              folders |-> {}, files |-> {}]
      ELSE IF Truthy(folderId) /\ ~FolderExists(folderId)
        THEN [status |-> 404, error |-> "Folder not found",
              folders |-> {}, files |-> {}]
      ELSE [status |-> 200, error |-> "",
            folders |-> {i \in DOMAIN folders :
               SqlEqOrBothNull(folders[i].parent_folder_id, folderId)},
            files |-> {f \in DOMAIN files :
               SqlEqOrBothNull(files[f].folder_id, folderId)}]

----------------------------------------------------------------------------
(* routes/folders.ts: GET /path/:folderId (reads only) *)

\* as ResolvePathWalk, with path.push in place of path.unshift
RECURSIVE ResolvePathWalk_push(_, _, _)
ResolvePathWalk_push(currentId, path, fuel) ==
  IF ~Truthy(currentId) \/ ~FolderExists(currentId)
    THEN [terminated |-> TRUE, path |-> path]
  ELSE IF fuel = 0 THEN [terminated |-> FALSE, path |-> path]
  ELSE ResolvePathWalk_push(
         folders[currentId].parent_folder_id,
         path \o <<[id |-> currentId, name |-> folders[currentId].name]>>,
         fuel - 1)

\* the loop `while (currentId) { ... if (!folder) break; path.unshift(...);
\* currentId = folder.parent_folder_id }`; fuel is the number of iterations
\* after which the walk has come back to a row and so never ends
RECURSIVE ResolvePathWalk(_, _, _)
ResolvePathWalk(currentId, path, fuel) ==
  IF ~Truthy(currentId) \/ ~FolderExists(currentId)
    THEN [terminated |-> TRUE, path |-> path]
  ELSE IF fuel = 0 THEN [terminated |-> FALSE, path |-> path]
  ELSE ResolvePathWalk(
         folders[currentId].parent_folder_id,
         <<[id |-> currentId, name |-> folders[currentId].name]>> \o path,
         fuel - 1)

ResolvePath(rawId) ==
  LET folderId == parseInt(rawId)
  IN  IF folderId = NaN
        THEN [status |-> 400, error |-> "Invalid folder ID",
              terminated |-> TRUE, path |-> <<>>]
      ELSE LET walk == ResolvePathWalk(folderId, <<>>,
                                       Cardinality(DOMAIN folders))
           IN  [status |-> 200, error |-> "",
                terminated |-> walk.terminated, path |-> walk.path]

----------------------------------------------------------------------------
(* Catalog: files and file_versions tables *)

\* SELECT ... FROM files WHERE id = ?
FileExists(id) == id \in DOMAIN files

\* the file_versions rows of a file
VersionRowsOf(fileId) ==
  {i \in DOMAIN file_versions : file_versions[i].file_id = fileId}

\* SELECT ... FROM file_versions WHERE file_id = ? AND version_number = ?
VersionRow(fileId, versionNumber) ==
  {i \in VersionRowsOf(fileId) :
     file_versions[i].version_number = versionNumber}

\* SELECT MAX(version_number) FROM file_versions WHERE file_id = ?
MaxVersionNumber(fileId) ==
  LET ns == {file_versions[i].version_number : i \in VersionRowsOf(fileId)}
  IN  IF ns = {} THEN NULL ELSE CHOOSE n \in ns : \A m \in ns : m <= n

\* JavaScript `a || b` on numbers and null
OrElse(a, b) == IF Truthy(a) THEN a ELSE b

Max2(a, b) == IF a >= b THEN a ELSE b

\* as NextVersion, numbering from the version rows alone
NextVersion_ignoreCurrent(fileId) ==
  OrElse(MaxVersionNumber(fileId), 0) + 1

\* as NextVersion, numbering from current_version alone
NextVersion_currentOnly(fileId) ==
  OrElse(files[fileId].current_version, 0) + 1

\* nextVersion of POST /upload/:fileId
NextVersion(fileId) ==
  LET currentVersion == OrElse(files[fileId].current_version, 0)
      maxVersionNum == OrElse(MaxVersionNumber(fileId), currentVersion)
  IN  Max2(maxVersionNum, currentVersion) + 1

\* UNIQUE(file_id, version_number)
VersionUniqueOK(fileId, versionNumber) == VersionRow(fileId, versionNumber) = {}

----------------------------------------------------------------------------
(* Blob directory *)
RangeOf(seq) == {seq[i] : i \in 1..Len(seq)}

PathsOf(fileRecs) == {r.path : r \in RangeOf(fileRecs)}

\* fs.unlink of every path in paths
RemovePaths(d, paths) == [p \in DOMAIN d \ paths |-> d[p]]

\* path.join(destination, filename)
JoinUploadDir(filename) == uploadDir \o <<"/">> \o filename

----------------------------------------------------------------------------
(* multer: upload.array('files', 10) of routes/files.ts and                *)
(* upload.single('file') of routes/versions.ts, with diskStorage           *)

\* POST /api/files/upload arrives; multer starts reading the multipart body
UploadReceive(u) ==
  /\ CanStart(u)
  /\ conn' = [conn EXCEPT ![u] =
       [pc |-> "multer", op |-> "upload", fileId |-> "",
        stored |-> <<>>, cur |-> <<>>]]
  /\ UNCHANGED <<folderVars, fileVars, blobVars, last>>

\* POST /api/versions/upload/:fileId arrives
UploadVersionReceive(u, fileId) ==
  /\ CanStart(u)
  /\ conn' = [conn EXCEPT ![u] =
       [pc |-> "multer", op |-> "uploadVersion", fileId |-> fileId,
        stored |-> <<>>, cur |-> <<>>]]
  /\ UNCHANGED <<folderVars, fileVars, blobVars, last>>

MaxCount(op) == IF op = "upload" THEN maxCountArray ELSE maxCountSingle

\* as MulterAbort, removing only the files that were stored completely
MulterAbort_keepPartial(u, status, error) ==
  /\ disk' = RemovePaths(disk, PathsOf(conn[u].stored))
  /\ last' = [op |-> conn[u].op, by |-> "multer", status |-> status,
              error |-> error]
  /\ conn' = [conn EXCEPT ![u] = IdleConn]
  /\ UNCHANGED keySeq

\* multer ends the request with an error: the files it has written are
\* removed, next(err) reaches the error middleware of server.ts
MulterAbort(u, status, error) ==
  /\ disk' = RemovePaths(disk, PathsOf(conn[u].stored \o conn[u].cur))
  /\ last' = [op |-> conn[u].op, by |-> "multer", status |-> status,
              error |-> error]
  /\ conn' = [conn EXCEPT ![u] = IdleConn]
  /\ UNCHANGED keySeq

\* as MulterFileStart, reporting the file to the request as soon as its
\* write stream is opened
MulterFileStart_reportOnOpen(u, originalname, mimetype) ==
  /\ conn[u].pc = "multer"
  /\ conn[u].cur = <<>>
  /\ isValidMimeType(mimetype)
  /\ keySeq < MaxKeys
  /\ conn[u].op = "upload" => fileSeq + Len(conn[u].stored) < MaxFileId
  /\ LET filename == generateUniqueFilename(originalname, DecStr(keySeq + 1))
         path == JoinUploadDir(filename)
         file == [originalname |-> originalname, mimetype |-> mimetype,
                  filename |-> filename, path |-> path, size |-> 0]
     IN  /\ disk' = disk @@ (path :> [written |-> 0, complete |-> FALSE])
         /\ conn' = [conn EXCEPT ![u].stored = Append(@, file)]
  /\ keySeq' = keySeq + 1
  /\ UNCHANGED <<folderVars, fileVars, last>>

\* fs.createWriteStream(path): the file is created, or truncated when it exists
OpenForWrite(d, path) ==
  [p \in DOMAIN d \cup {path} |->
     IF p = path THEN [written |-> 0, complete |-> FALSE] ELSE d[p]]

\* a file part begins: count limit, fileFilter, then diskStorage opens the
\* write stream under the name generated from token, the pair of Date.now()
\* and Math.random() that generateUniqueFilename draws
MulterFileStartWith(u, originalname, mimetype, token) ==
  /\ conn[u].pc = "multer"
  /\ conn[u].cur = <<>>
  /\ IF Len(conn[u].stored) >= MaxCount(conn[u].op)
       THEN MulterAbort(u, 500, "Unexpected field")
     ELSE IF ~isValidMimeType(mimetype)
       THEN MulterAbort(u, 500, "File type is not allowed")
     ELSE /\ keySeq < MaxKeys
          /\ conn[u].op = "upload" => fileSeq + Len(conn[u].stored) < MaxFileId
          /\ LET filename == generateUniqueFilename(originalname, token)
                 path == JoinUploadDir(filename)
                 file == [originalname |-> originalname, mimetype |-> mimetype,
                          filename |-> filename, path |-> path, size |-> 0]
             IN  /\ disk' = OpenForWrite(disk, path)
                 /\ conn' = [conn EXCEPT ![u].cur = <<file>>]
          /\ keySeq' = keySeq + 1
          /\ UNCHANGED last
  /\ UNCHANGED <<folderVars, fileVars>>

\* a file part begins in a run in which no two generated names coincide:
\* the token is the number of the name
MulterFileStart(u, originalname, mimetype) ==
  MulterFileStartWith(u, originalname, mimetype, DecStr(keySeq + 1))

\* the data of the current file part has arrived: length bytes.  A part
\* longer than limits.fileSize ends the request with LIMIT_FILE_SIZE;
\* otherwise the write stream finishes and the file is reported to the request
MulterFileData(u, length) ==
  /\ conn[u].pc = "multer"
  /\ conn[u].cur # <<>>
  /\ LET file == [conn[u].cur[1] EXCEPT !.size = length]
     IN  IF length > maxFileSize
           THEN MulterAbort(u, 400, "File too large")
           ELSE /\ disk' = [disk EXCEPT ![file.path] =
                              [written |-> length, complete |-> TRUE]]
                /\ conn' = [conn EXCEPT ![u].stored = Append(@, file),
                                        ![u].cur = <<>>]
                /\ UNCHANGED <<keySeq, last>>
  /\ UNCHANGED <<folderVars, fileVars>>

\* the caller disconnects while the body is being received: no handler runs
\* and no response is sent (status 0); whether multer unlinks what it has
\* written depends on its version
Disconnect(u, unlink) ==
  /\ conn[u].pc \in {"body", "multer"}
  /\ disk' = IF unlink /\ conn[u].pc = "multer"
               THEN RemovePaths(disk, PathsOf(conn[u].stored \o conn[u].cur))
               ELSE disk
  /\ last' = [op |-> conn[u].op, by |-> "client", status |-> 0,
              error |-> "request aborted"]
  /\ conn' = [conn EXCEPT ![u] = IdleConn]
  /\ UNCHANGED <<folderVars, fileVars, keySeq>>

\* multer has read the whole body and calls next(): req.files / req.file
MulterFinished(u) == conn[u].pc = "multer" /\ conn[u].cur = <<>>

----------------------------------------------------------------------------
(* routes/files.ts: POST /upload *)
\* as UploadOutcome, without the lookup of the folder
UploadOutcome_noFolderCheck(reqFiles, folderId) ==
  IF Len(reqFiles) = 0 THEN Resp(400, "No files uploaded")
  ELSE Resp(201, "")

UploadOutcome(reqFiles, folderId) ==
  IF Len(reqFiles) = 0 THEN Resp(400, "No files uploaded")
  ELSE IF Truthy(folderId) /\ ~FolderExists(folderId)
    THEN Resp(404, "Folder not found")
  ELSE Resp(201, "")

\* INSERT INTO files (...) for one uploaded file; current_version DEFAULT 1
FileRow(file, folderId, u) ==
  [filename |-> file.filename,
   original_filename |-> sanitizeFilename(file.originalname),
   file_path |-> file.path,
   file_size |-> file.size,
   mime_type |-> file.mimetype,
   folder_id |-> Bind(folderId),
   uploaded_by |-> u,
   current_version |-> 1]

UploadHandler(u, rawFolderId) ==
  /\ MulterFinished(u)
  /\ conn[u].op = "upload"
  /\ LET reqFiles == conn[u].stored
         folderId == ParseOptionalId(rawFolderId)
         out == UploadOutcome(reqFiles, folderId)
         n == Len(reqFiles)
     IN  /\ IF out.status = 201
              THEN /\ fileSeq + n <= MaxFileId
                   /\ files' = files @@
                        [i \in (fileSeq + 1)..(fileSeq + n) |->
                           FileRow(reqFiles[i - fileSeq], folderId, u)]
                   /\ fileSeq' = fileSeq + n
              ELSE UNCHANGED <<files, fileSeq>>
         /\ last' = [op |-> "upload", by |-> "handler", status |-> out.status,
                     error |-> out.error, folderId |-> folderId,
                     ids |-> IF out.status = 201
                               THEN (fileSeq + 1)..(fileSeq + n) ELSE {}]
  /\ conn' = [conn EXCEPT ![u] = IdleConn]
  /\ UNCHANGED <<folderVars, file_versions, versionSeq, blobVars>>

\* the handler of POST /upload when the INSERT of file number k + 1 throws
\* (database full, locked or unwritable): the loop has no transaction, so
\* the k rows before it stay; the catch block answers 500 and unlinks nothing
UploadHandlerInsertFails(u, rawFolderId, k) ==
  /\ MulterFinished(u)
  /\ conn[u].op = "upload"
  /\ LET reqFiles == conn[u].stored
         folderId == ParseOptionalId(rawFolderId)
         out == UploadOutcome(reqFiles, folderId)
     IN  /\ out.status = 201
         /\ k < Len(reqFiles)
         /\ fileSeq + k <= MaxFileId
         /\ files' = files @@
              [i \in (fileSeq + 1)..(fileSeq + k) |->
                 FileRow(reqFiles[i - fileSeq], folderId, u)]
         /\ fileSeq' = fileSeq + k
         /\ last' = [op |-> "upload", by |-> "handler", status |-> 500,
                     error |-> "insert failed", folderId |-> folderId,
                     ids |-> {}, paths |-> PathsOf(reqFiles)]
  /\ conn' = [conn EXCEPT ![u] = IdleConn]
  /\ UNCHANGED <<folderVars, file_versions, versionSeq, blobVars>>

----------------------------------------------------------------------------
(* routes/files.ts: PATCH /move/:id *)
MoveFileOutcome(u, fileId, folderId) ==
  LET targetFolderId == ParseOptionalId(folderId)
  IN  IF fileId = NaN THEN Resp(400, "Invalid file ID")
      ELSE IF folderId # "" /\ targetFolderId = NaN
        THEN Resp(400, "Invalid folder ID")
      ELSE IF ~FileExists(fileId) THEN Resp(404, "File not found")
      ELSE IF files[fileId].uploaded_by # u
        THEN Resp(403, "You can only move files you uploaded")
      ELSE IF Truthy(targetFolderId) /\ ~FolderExists(targetFolderId)
        THEN Resp(404, "Target folder not found")
      ELSE Resp(200, "")

\* the handler of PATCH /move/:id with body { folderId }
MoveFile(u, rawId, folderId) ==
  /\ CanStart(u)
  /\ LET fileId == parseInt(rawId)
         targetFolderId == ParseOptionalId(folderId)
         out == MoveFileOutcome(u, fileId, folderId)
     IN  /\ IF out.status = 200
              THEN files' = [files EXCEPT
                               ![fileId].folder_id = Bind(targetFolderId)]
              ELSE UNCHANGED files
         /\ last' = [op |-> "move", by |-> "handler", u |-> u,
                     status |-> out.status, error |-> out.error,
                     fileId |-> fileId, folderId |-> folderId]
  /\ UNCHANGED <<folderVars, fileSeq, file_versions, versionSeq, blobVars, conn>>

----------------------------------------------------------------------------
(* routes/versions.ts: POST /upload/:fileId *)
UploadVersionOutcome(reqFiles, fileId) ==
  IF fileId = NaN THEN Resp(400, "Invalid file ID")
  ELSE IF Len(reqFiles) = 0 THEN Resp(400, "No file uploaded")
  ELSE IF ~FileExists(fileId) THEN Resp(404, "File not found")
  ELSE IF ~VersionUniqueOK(fileId, NextVersion(fileId))
    THEN Resp(500, "UNIQUE constraint failed")
  ELSE Resp(201, "")

\* as FileAfterNewVersion, with the files row following the blob of its
\* current version
FileAfterNewVersion_mirrorBlob(row, nextVersion, file) ==
  [row EXCEPT !.current_version = nextVersion,
              !.file_path = file.path,
              !.file_size = file.size,
              !.mime_type = file.mimetype]

\* UPDATE files SET current_version = ? WHERE id = ?
FileAfterNewVersion(row, nextVersion, file) ==
  [row EXCEPT !.current_version = nextVersion]

UploadVersionHandler(u) ==
  /\ MulterFinished(u)
  /\ conn[u].op = "uploadVersion"
  /\ LET reqFiles == conn[u].stored
         fileId == parseInt(conn[u].fileId)
         out == UploadVersionOutcome(reqFiles, fileId)
     IN  IF out.status = 201
           THEN LET nextVersion == NextVersion(fileId)
                    id == versionSeq + 1
                IN  /\ id <= MaxVersionId
                    /\ file_versions' = file_versions @@
                         (id :> [file_id |-> fileId,
                                 version_number |-> nextVersion,
                                 file_path |-> reqFiles[1].path,
                                 file_size |-> reqFiles[1].size,
                                 uploaded_by |-> u])
                    /\ versionSeq' = id
                    /\ files' = [files EXCEPT ![fileId] =
                                   FileAfterNewVersion(@, nextVersion,
                                                       reqFiles[1])]
                    /\ last' = [op |-> "uploadVersion", by |-> "handler",
                                status |-> 201, error |-> "",
                                fileId |-> fileId, id |-> id,
                                versionNumber |-> nextVersion]
           ELSE /\ UNCHANGED <<files, file_versions, versionSeq>>
                /\ last' = [op |-> "uploadVersion", by |-> "handler",
                            status |-> out.status, error |-> out.error,
                            fileId |-> fileId, id |-> NULL,
                            versionNumber |-> NULL]
  /\ conn' = [conn EXCEPT ![u] = IdleConn]
  /\ UNCHANGED <<folderVars, fileSeq, blobVars>>

\* the handler of POST /upload/:fileId when the INSERT INTO file_versions
\* throws: the catch block answers 500 and unlinks nothing
UploadVersionHandlerInsertFails(u) ==
  /\ MulterFinished(u)
  /\ conn[u].op = "uploadVersion"
  /\ LET reqFiles == conn[u].stored
         fileId == parseInt(conn[u].fileId)
     IN  /\ UploadVersionOutcome(reqFiles, fileId).status = 201
         /\ last' = [op |-> "uploadVersion", by |-> "handler", status |-> 500,
                     error |-> "insert failed", fileId |-> fileId,
                     id |-> NULL, versionNumber |-> NULL,
                     paths |-> PathsOf(reqFiles)]
  /\ conn' = [conn EXCEPT ![u] = IdleConn]
  /\ UNCHANGED <<folderVars, fileVars, blobVars>>

\* the handler of POST /upload/:fileId when the INSERT has run and the
\* UPDATE files throws: the two statements are run one after the other in
\* autocommit, with no transaction around them, so the version row stays;
\* the catch block answers 500
UploadVersionHandlerUpdateFails(u) ==
  /\ MulterFinished(u)
  /\ conn[u].op = "uploadVersion"
  /\ LET reqFiles == conn[u].stored
         fileId == parseInt(conn[u].fileId)
         nextVersion == NextVersion(fileId)
         id == versionSeq + 1
     IN  /\ UploadVersionOutcome(reqFiles, fileId).status = 201
         /\ id <= MaxVersionId
         /\ file_versions' = file_versions @@
              (id :> [file_id |-> fileId,
                      version_number |-> nextVersion,
                      file_path |-> reqFiles[1].path,
                      file_size |-> reqFiles[1].size,
                      uploaded_by |-> u])
         /\ versionSeq' = id
         /\ last' = [op |-> "uploadVersion", by |-> "handler", status |-> 500,
                     error |-> "update failed", fileId |-> fileId,
                     id |-> NULL, versionNumber |-> NULL,
                     paths |-> PathsOf(reqFiles)]
  /\ conn' = [conn EXCEPT ![u] = IdleConn]
  /\ UNCHANGED <<folderVars, files, fileSeq, blobVars>>

----------------------------------------------------------------------------
(* routes/versions.ts: POST /restore/:fileId/:versionNumber *)

\* as RestoreVersionOutcome, without the lookup of the version row
RestoreVersionOutcome_noVersionLookup(fileId, versionNumber) ==
  IF fileId = NaN \/ versionNumber = NaN
    THEN Resp(400, "Invalid file ID or version number")
  ELSE IF ~FileExists(fileId) THEN Resp(404, "File not found")
  ELSE Resp(200, "")

\* as RestoreVersionOutcome, taking version 1 to exist for every file
RestoreVersionOutcome_firstImplicit(fileId, versionNumber) ==
  IF fileId = NaN \/ versionNumber = NaN
    THEN Resp(400, "Invalid file ID or version number")
  ELSE IF ~FileExists(fileId) THEN Resp(404, "File not found")
  ELSE IF versionNumber # 1 /\ VersionRow(fileId, versionNumber) = {}
    THEN Resp(404, "Version not found")
  ELSE Resp(200, "")

RestoreVersionOutcome(fileId, versionNumber) ==
  IF fileId = NaN \/ versionNumber = NaN
    THEN Resp(400, "Invalid file ID or version number")
  ELSE IF ~FileExists(fileId) THEN Resp(404, "File not found")
  ELSE IF VersionRow(fileId, versionNumber) = {}
    THEN Resp(404, "Version not found")
  ELSE Resp(200, "")

RestoreVersion(u, rawFileId, rawVersionNumber) ==
  /\ CanStart(u)
  /\ LET fileId == parseInt(rawFileId)
         versionNumber == parseInt(rawVersionNumber)
         out == RestoreVersionOutcome(fileId, versionNumber)
     IN  /\ IF out.status = 200
              THEN files' = [files EXCEPT
                               ![fileId].current_version = versionNumber]
              ELSE UNCHANGED files
         /\ last' = [op |-> "restore", by |-> "handler", status |-> out.status,
                     error |-> out.error, fileId |-> fileId,
                     versionNumber |-> versionNumber]
  /\ UNCHANGED <<folderVars, fileSeq, file_versions, versionSeq, blobVars, conn>>

----------------------------------------------------------------------------
(* routes/versions.ts: GET /:fileId (reads only) *)

\* the rows ids ordered by version_number DESC
RECURSIVE OrderByVersionDesc(_)
OrderByVersionDesc(ids) ==
  IF ids = {} THEN <<>>
  ELSE LET top == CHOOSE i \in ids : \A j \in ids :
                    \/ file_versions[j].version_number
                         < file_versions[i].version_number
                    \/ (file_versions[j].version_number
                          = file_versions[i].version_number /\ i <= j)
       IN  <<top>> \o OrderByVersionDesc(ids \ {top})

\* as ListVersions, flagging the newest entry instead of comparing with
\* current_version
ListVersions_flagNewest(rawFileId) ==
  LET fileId == parseInt(rawFileId)
  IN  IF fileId = NaN
        THEN [status |-> 400, error |-> "Invalid file ID",
              currentVersion |-> NULL, versions |-> <<>>]
      ELSE IF ~FileExists(fileId)
        THEN [status |-> 404, error |-> "File not found",
              currentVersion |-> NULL, versions |-> <<>>]
      ELSE LET order == OrderByVersionDesc(VersionRowsOf(fileId))
           IN  [status |-> 200, error |-> "",
                currentVersion |-> files[fileId].current_version,
                versions |->
                  [k \in 1..Len(order) |->
                     [id |-> order[k],
                      versionNumber |-> file_versions[order[k]].version_number,
                      fileSize |-> file_versions[order[k]].file_size,
                      isCurrent |-> k = 1]]]

ListVersions(rawFileId) ==
  LET fileId == parseInt(rawFileId)
  IN  IF fileId = NaN
        THEN [status |-> 400, error |-> "Invalid file ID",
              currentVersion |-> NULL, versions |-> <<>>]
      ELSE IF ~FileExists(fileId)
        THEN [status |-> 404, error |-> "File not found",
              currentVersion |-> NULL, versions |-> <<>>]
      ELSE LET order == OrderByVersionDesc(VersionRowsOf(fileId))
           IN  [status |-> 200, error |-> "",
                currentVersion |-> files[fileId].current_version,
                versions |->
                  [k \in 1..Len(order) |->
                     [id |-> order[k],
                      versionNumber |-> file_versions[order[k]].version_number,
                      fileSize |-> file_versions[order[k]].file_size,
                      isCurrent |->
                        file_versions[order[k]].version_number
                          = files[fileId].current_version]]]

----------------------------------------------------------------------------
(* routes/files.ts: GET /search, GET /list, GET /stats (reads only)        *)
(* The rows carry no uploaded_at in this model: a listing is the set of    *)
(* the ids it returns.                                                     *)

UpperCase == <<"A", "B", "C", "D", "E", "F", "G", "H", "I", "J", "K", "L", "M",
               "N", "O", "P", "Q", "R", "S", "T", "U", "V", "W", "X", "Y", "Z">>

LowerCase == <<"a", "b", "c", "d", "e", "f", "g", "h", "i", "j", "k", "l", "m",
               "n", "o", "p", "q", "r", "s", "t", "u", "v", "w", "x", "y", "z">>

\* SQLite folds the ASCII letters when LIKE compares two characters
AsciiLower(ch) ==
  IF \E i \in 1..26 : UpperCase[i] = ch
    THEN LowerCase[CHOOSE i \in 1..26 : UpperCase[i] = ch]
    ELSE ch

\* SQLite `str LIKE pat` without ESCAPE: % is any run of characters, _ is
\* any one character, the others match themselves up to ASCII case
RECURSIVE LikeMatch(_, _)
LikeMatch(pat, str) ==
  IF pat = <<>> THEN str = <<>>
  ELSE IF Head(pat) = "%"
    THEN \/ LikeMatch(Tail(pat), str)
         \/ str # <<>> /\ LikeMatch(pat, Tail(str))
  ELSE IF str = <<>> THEN FALSE
  ELSE IF Head(pat) = "_" THEN LikeMatch(Tail(pat), Tail(str))
  ELSE /\ AsciiLower(Head(pat)) = AsciiLower(Head(str))
       /\ LikeMatch(Tail(pat), Tail(str))

\* GET /search?q=...; <<>> is a request without q or with an empty one
Search(query) ==
  IF query = <<>> \/ Len(Trim(query)) = 0
    THEN [status |-> 400, error |-> "Search query is required", files |-> {}]
  ELSE LET searchTerm == <<"%">> \o Trim(query) \o <<"%">>
       IN  [status |-> 200, error |-> "",
            files |-> {i \in DOMAIN files :
                         LikeMatch(searchTerm, files[i].original_filename)}]

defaultPage == 1
defaultLimit == 50

\* GET /list without page and limit: page 1 of 50 rows.  The rows returned
\* are all of them as long as they are no more than the limit.
ListFiles ==
  LET offset == (defaultPage - 1) * defaultLimit
      total == Cardinality(DOMAIN files)
  IN  [status |-> 200,
       files |-> IF offset = 0 /\ total <= defaultLimit
                   THEN DOMAIN files ELSE {},
       total |-> total]

\* SELECT SUM(file_size) over the rows ids of table
RECURSIVE SumFileSize(_, _)
SumFileSize(table, ids) ==
  IF ids = {} THEN 0
  ELSE LET i == CHOOSE j \in ids : TRUE
       IN  table[i].file_size + SumFileSize(table, ids \ {i})

\* GET /stats
Stats ==
  LET filesTotal == SumFileSize(files, DOMAIN files)
      versionsTotal == SumFileSize(file_versions, DOMAIN file_versions)
  IN  [status |-> 200,
       totalStorage |-> filesTotal + versionsTotal,
       filesTotal |-> filesTotal,
       versionsTotal |-> versionsTotal,
       fileCount |-> Cardinality(DOMAIN files)]

----------------------------------------------------------------------------
(* Downloads (read only): which path is streamed *)
IsPrefix(p, s) == Len(p) <= Len(s) /\ SubSeq(s, 1, Len(p)) = p

\* filePath.split('/')
RECURSIVE SplitPath(_)
SplitPath(p) ==
  LET I == {i \in 1..Len(p) : p[i] = "/"}
  IN  IF I = {} THEN <<p>>
      ELSE LET k == CHOOSE i \in I : \A j \in I : i <= j
           IN  <<SubSeq(p, 1, k - 1)>> \o SplitPath(SubSeq(p, k + 1, Len(p)))

\* drop empty and '.' segments, let '..' remove the segment before it
RECURSIVE NormalizeSegments(_, _)
NormalizeSegments(segs, out) ==
  IF segs = <<>> THEN out
  ELSE LET h == Head(segs)
           t == Tail(segs)
       IN  IF h = <<>> \/ h = <<".">> THEN NormalizeSegments(t, out)
           ELSE IF h = <<".", ".">>
             THEN NormalizeSegments(t, IF out = <<>> THEN out
                                       ELSE SubSeq(out, 1, Len(out) - 1))
           ELSE NormalizeSegments(t, Append(out, h))

RECURSIVE JoinSegments(_)
JoinSegments(segs) ==
  IF segs = <<>> THEN <<>>
  ELSE <<"/">> \o Head(segs) \o JoinSegments(Tail(segs))

\* path.resolve(p) for an absolute p
resolve(p) ==
  LET joined == JoinSegments(NormalizeSegments(SplitPath(p), <<>>))
  IN  IF joined = <<>> THEN <<"/">> ELSE joined

\* fs.existsSync(p); the upload directory itself exists, so the file system
\* reaches the same file through p and through its resolved form
existsSync(p) == resolve(p) \in DOMAIN disk

\* the statements of both download handlers from `const filePath` on;
\* calls lists, in program order, what was done with the stored path
StreamStored(filePath, notOnDisk) ==
  IF ~existsSync(filePath)
    THEN [status |-> 404, error |-> notOnDisk,
          streamed |-> <<>>, calls |-> <<"existsSync">>]
  ELSE IF ~IsPrefix(resolve(uploadDir), resolve(filePath))
    THEN [status |-> 403, error |-> "Access denied", streamed |-> <<>>,
          calls |-> <<"existsSync", "startsWith">>]
  ELSE [status |-> 200, error |-> "", streamed |-> filePath,
        calls |-> <<"existsSync", "startsWith", "createReadStream">>]

\* routes/files.ts: GET /download/:id
DownloadFile(rawId) ==
  LET fileId == parseInt(rawId)
  IN  IF fileId = NaN
        THEN [status |-> 400, error |-> "Invalid file ID", streamed |-> <<>>,
              calls |-> <<>>]
      ELSE IF ~FileExists(fileId)
        THEN [status |-> 404, error |-> "File not found", streamed |-> <<>>,
              calls |-> <<>>]
      ELSE StreamStored(files[fileId].file_path, "File not found on disk")

\* routes/versions.ts: GET /download/:fileId/:versionNumber
DownloadVersion(rawFileId, rawVersionNumber) ==
  LET fileId == parseInt(rawFileId)
      versionNumber == parseInt(rawVersionNumber)
  IN  IF fileId = NaN \/ versionNumber = NaN
        THEN [status |-> 400, error |-> "Invalid file ID or version number",
              streamed |-> <<>>, calls |-> <<>>]
      ELSE IF ~FileExists(fileId)
        THEN [status |-> 404, error |-> "File not found", streamed |-> <<>>,
              calls |-> <<>>]
      ELSE IF VersionRow(fileId, versionNumber) = {}
        THEN [status |-> 404, error |-> "Version not found", streamed |-> <<>>,
              calls |-> <<>>]
      ELSE StreamStored(
             file_versions[CHOOSE i \in VersionRow(fileId, versionNumber) : TRUE]
               .file_path,
             "Version file not found on disk")

\* the file_path that a download request reads from the catalog, <<>> when
\* the handler answers before it has one
StoredPathOfFile(rawId) ==
  LET fileId == parseInt(rawId)
  IN  IF fileId \in DOMAIN files THEN files[fileId].file_path ELSE <<>>

StoredPathOfVersion(rawFileId, rawVersionNumber) ==
  LET row == VersionRow(parseInt(rawFileId), parseInt(rawVersionNumber))
  IN  IF parseInt(rawFileId) \in DOMAIN files /\ row # {}
        THEN file_versions[CHOOSE i \in row : TRUE].file_path
        ELSE <<>>

\* GET /api/files/download/:id is served
DownloadFileRequest(u, rawId) ==
  /\ CanStart(u)
  /\ LET r == DownloadFile(rawId)
     IN  last' = [op |-> "download", by |-> "handler", status |-> r.status,
                  error |-> r.error, path |-> StoredPathOfFile(rawId),
                  streamed |-> r.streamed, calls |-> r.calls]
  /\ UNCHANGED <<folderVars, fileVars, blobVars, conn>>

\* GET /api/versions/download/:fileId/:versionNumber is served
DownloadVersionRequest(u, rawFileId, rawVersionNumber) ==
  /\ CanStart(u)
  /\ LET r == DownloadVersion(rawFileId, rawVersionNumber)
     IN  last' = [op |-> "downloadVersion", by |-> "handler",
                  status |-> r.status, error |-> r.error,
                  path |-> StoredPathOfVersion(rawFileId, rawVersionNumber),
                  streamed |-> r.streamed, calls |-> r.calls]
  /\ UNCHANGED <<folderVars, fileVars, blobVars, conn>>

----------------------------------------------------------------------------
(* The server started on an existing database and upload directory.  The   *)
(* database file (config.dbPath) and the directories outlive the process,  *)
(* and config.uploadDir follows the working directory of each run, so the  *)
(* rows found at start may hold paths under the present upload directory,  *)
(* under a directory whose name begins with its name, or with '..' in them *)

StoredPathInputs ==
  { JoinUploadDir(<<"a">>),
    uploadDir \o <<"2", "/", "a">>,
    uploadDir \o <<"/", ".", ".", "/", "e">> }

StoredFileRow(p, currentVersion) ==
  [filename |-> basename(p), original_filename |-> <<"a">>, file_path |-> p,
   file_size |-> 1, mime_type |-> "video/mp4", folder_id |-> NULL,
   uploaded_by |-> 1, current_version |-> currentVersion]

StoredVersionRow(p) ==
  [file_id |-> 1, version_number |-> 2, file_path |-> p, file_size |-> 1,
   uploaded_by |-> 1]

InitStored ==
  /\ folders = <<>>
  /\ folderSeq = 0
  /\ deletedFolderIds = {}
  /\ \E p \in StoredPathInputs :
       \/ /\ files = (1 :> StoredFileRow(p, 1))
          /\ file_versions = <<>>
          /\ versionSeq = 0
       \/ \E q \in StoredPathInputs :
            /\ files = (1 :> StoredFileRow(p, 2))
            /\ file_versions = (1 :> StoredVersionRow(q))
            /\ versionSeq = 1
  /\ fileSeq = 1
  /\ \E S \in SUBSET {resolve(p) : p \in StoredPathInputs} :
       disk = [p \in S |-> [written |-> 1, complete |-> TRUE]]
  /\ keySeq = 0
  /\ conn = [u \in Users |-> IdleConn]
  /\ last = NoResponse

NextDownloads ==
  \/ \E u \in Users, f \in FileIdInputs : DownloadFileRequest(u, f)
  \/ \E u \in Users, f \in FileIdInputs, v \in VersionInputs :
       DownloadVersionRequest(u, f, v)

SpecDownloads == InitStored /\ [][NextDownloads]_vars

----------------------------------------------------------------------------
Init ==
  /\ folders = <<>>
  /\ folderSeq = 0
  /\ deletedFolderIds = {}
  /\ files = <<>>
  /\ fileSeq = 0
  /\ file_versions = <<>>
  /\ versionSeq = 0
  /\ disk = <<>>
  /\ keySeq = 0
  /\ conn = [u \in Users |-> IdleConn]
  /\ last = NoResponse

NextFolders ==
  \/ \E u \in Users : CreateFolderReceive(u)
  \/ \E u \in Users, name \in NameInputs, p \in OptFolderIdInputs :
       CreateFolderHandler(u, name, p)
  \/ \E u \in Users, id \in FolderIdInputs : DeleteFolder(u, id)

SpecFolders == Init /\ [][NextFolders]_vars

NextFiles ==
  \/ \E u \in Users : UploadReceive(u)
  \/ \E u \in Users, f \in FileIdInputs : UploadVersionReceive(u, f)
  \/ \E u \in Users, n \in OriginalNameInputs, m \in MimeTypeInputs :
       MulterFileStart(u, n, m)
  \/ \E u \in Users, n \in FileLengthInputs : MulterFileData(u, n)
  \/ \E u \in Users, unlink \in BOOLEAN : Disconnect(u, unlink)
  \/ \E u \in Users, p \in UploadFolderIdInputs : UploadHandler(u, p)
  \/ \E u \in Users : UploadVersionHandler(u)
  \/ \E u \in Users, f \in FileIdInputs, v \in VersionInputs :
       RestoreVersion(u, f, v)

SpecFiles == Init /\ [][NextFiles]_vars

----------------------------------------------------------------------------
(* middleware/auth: requireAuth, and the routes of server.ts that have it  *)

\* the rows of the users table: id -> username
usernames == [u \in Users |-> IF u = 1 THEN "jonah" ELSE "steven"]

\* Authorization headers: none, `Bearer 1:jonah`, `Bearer 2:steven`, a
\* username that is not the one of the id, an id that is not a number
AuthHeaderInputs ==
  { [scheme |-> "", userId |-> "", username |-> ""],
    [scheme |-> "Bearer", userId |-> "1", username |-> "jonah"],
    [scheme |-> "Bearer", userId |-> "2", username |-> "steven"],
    [scheme |-> "Bearer", userId |-> "1", username |-> "steven"],
    [scheme |-> "Bearer", userId |-> "x", username |-> "jonah"] }

\* requireAuth: status 200 stands for next() with req.userId set
requireAuth(h) ==
  IF h.scheme # "Bearer"
    THEN [status |-> 401, error |-> "Authentication required", userId |-> NULL]
  ELSE LET userIdNum == parseInt(h.userId)
       IN  IF userIdNum = NaN
             THEN [status |-> 401, error |-> "Invalid authentication token",
                   userId |-> NULL]
           ELSE IF ~(userIdNum \in Users /\ usernames[userIdNum] = h.username)
             THEN [status |-> 401, error |-> "Invalid authentication token",
                   userId |-> NULL]
           ELSE [status |-> 200, error |-> "", userId |-> userIdNum]

\* the routes registered with requireAuth
ProtectedRoutes ==
  { "createFolder", "listContents", "resolvePath", "deleteFolder",
    "upload", "list", "search", "download", "move", "stats",
    "uploadVersion", "listVersions", "restore", "downloadVersion" }

\* a request to a route with requireAuth whose header does not pass it
RejectedByAuth(route, h) ==
  /\ route \in ProtectedRoutes
  /\ requireAuth(h).status = 401
  /\ last' = [op |-> route, by |-> "auth", status |-> 401,
              error |-> requireAuth(h).error, auth |-> NULL,
              streamed |-> <<>>]
  /\ UNCHANGED <<folderVars, fileVars, blobVars, conn>>

\* app.use('/uploads', express.static(config.uploadDir)): GET
\* /uploads/<filename>; no middleware reads the Authorization header
StaticUploads(h, filename) ==
  /\ LET path == JoinUploadDir(filename)
     IN  last' = IF existsSync(path)
                   THEN [op |-> "static", by |-> "static", status |-> 200,
                         error |-> "", auth |-> requireAuth(h).userId,
                         streamed |-> path]
                   ELSE [op |-> "static", by |-> "static", status |-> 404,
                         error |-> "Not Found", auth |-> requireAuth(h).userId,
                         streamed |-> <<>>]
  /\ UNCHANGED <<folderVars, fileVars, blobVars, conn>>

StaticNameInputs == {basename(p) : p \in DOMAIN disk} \cup { <<"a">> }

NextAuth ==
  \/ \E u \in Users : UploadReceive(u)
  \/ \E u \in Users, n \in OriginalNameInputs :
       MulterFileStart(u, n, "video/mp4")
  \/ \E u \in Users : MulterFileData(u, maxFileSize)
  \/ \E u \in Users : UploadHandler(u, "")
  \/ \E route \in ProtectedRoutes, h \in AuthHeaderInputs :
       RejectedByAuth(route, h)
  \/ \E h \in AuthHeaderInputs, n \in StaticNameInputs : StaticUploads(h, n)

SpecAuth == Init /\ [][NextAuth]_vars

\* The uploads with the names as generateUniqueFilename makes them: the
\* millisecond clock and the random digits are inputs of each call, and two
\* calls may draw the same pair
TokenInputs == {"1", "2"}

NextKeys ==
  \/ \E u \in Users : UploadReceive(u)
  \/ \E u \in Users, f \in FileIdInputs : UploadVersionReceive(u, f)
  \/ \E u \in Users, n \in OriginalNameInputs, m \in MimeTypeInputs,
        t \in TokenInputs : MulterFileStartWith(u, n, m, t)
  \/ \E u \in Users, n \in FileLengthInputs : MulterFileData(u, n)
  \/ \E u \in Users, p \in UploadFolderIdInputs : UploadHandler(u, p)
  \/ \E u \in Users : UploadVersionHandler(u)

SpecKeys == Init /\ [][NextKeys]_vars

----------------------------------------------------------------------------
(* generateUniqueFilename on its own: every name over NameAlphabet of at *)
(* most MaxNameLen characters, each given a key once                     *)
NameAlphabet == <<"a", ".", "/", "\\", "?", " ">>

RECURSIVE NamesOfLen(_)
NamesOfLen(n) ==
  IF n = 0 THEN { <<>> }
  ELSE {<<NameAlphabet[k]>> \o s :
          k \in 1..Len(NameAlphabet), s \in NamesOfLen(n - 1)}

AnyNameInputs == UNION {NamesOfLen(n) : n \in 1..MaxNameLen}

InitNames ==
  /\ folders = <<>>
  /\ folderSeq = 0
  /\ deletedFolderIds = {}
  /\ files = <<>>
  /\ fileSeq = 0
  /\ file_versions = <<>>
  /\ versionSeq = 0
  /\ disk = <<>>
  /\ keySeq = 0
  /\ conn = [u \in Users |-> IdleConn]
  /\ \E n \in AnyNameInputs :
       last = [op |-> "originalname", by |-> "client", originalname |-> n]

GenerateKey(token) ==
  /\ last.op = "originalname"
  /\ last' = [op |-> "generateUniqueFilename", by |-> "multer",
              originalname |-> last.originalname,
              key |-> generateUniqueFilename(last.originalname, token)]
  /\ UNCHANGED <<folderVars, fileVars, blobVars, conn>>

NextNames == \E t \in TokenInputs : GenerateKey(t)

SpecNames == InitNames /\ [][NextNames]_vars

\* Folders and files together: folders are created and deleted, files are
\* uploaded into folders and moved between them; the requests are served
\* one after the other
CatalogNameInputs == { <<"a">> }

CatalogParentInputs == {"", "1"}

CatalogFolderIdInputs == {"", "0", "2"}

AllIdle == \A w \in Users : CanStart(w)

NextCatalog ==
  \/ \E u \in Users : AllIdle /\ CreateFolderReceive(u)
  \/ \E u \in Users, name \in CatalogNameInputs, p \in CatalogParentInputs :
       CreateFolderHandler(u, name, p)
  \/ \E u \in Users, id \in FolderIdInputs : AllIdle /\ DeleteFolder(u, id)
  \/ \E u \in Users : AllIdle /\ UploadReceive(u)
  \/ \E u \in Users, n \in OriginalNameInputs :
       MulterFileStart(u, n, "video/mp4")
  \/ \E u \in Users : MulterFileData(u, maxFileSize)
  \/ \E u \in Users, p \in CatalogFolderIdInputs : UploadHandler(u, p)
  \/ \E u \in Users, f \in FileIdInputs, p \in CatalogFolderIdInputs :
       AllIdle /\ MoveFile(u, f, p)

SpecCatalog == Init /\ [][NextCatalog]_vars

\* Files with versions, moved between folders: one request at a time
FrameFolderIdInputs == {"", "1"}

NextFrame ==
  \/ \E u \in Users : AllIdle /\ CreateFolderReceive(u)
  \/ \E u \in Users : CreateFolderHandler(u, <<"a">>, "")
  \/ \E u \in Users : AllIdle /\ UploadReceive(u)
  \/ \E u \in Users, f \in FileIdInputs :
       AllIdle /\ UploadVersionReceive(u, f)
  \/ \E u \in Users, n \in OriginalNameInputs, m \in MimeTypeInputs :
       MulterFileStart(u, n, m)
  \/ \E u \in Users : MulterFileData(u, maxFileSize)
  \/ \E u \in Users, p \in FrameFolderIdInputs : UploadHandler(u, p)
  \/ \E u \in Users : UploadVersionHandler(u)
  \/ \E u \in Users, f \in FileIdInputs, v \in VersionInputs :
       AllIdle /\ RestoreVersion(u, f, v)
  \/ \E u \in Users, f \in FileIdInputs, p \in FrameFolderIdInputs :
       AllIdle /\ MoveFile(u, f, p)

SpecFrame == Init /\ [][NextFrame]_vars

\* The uploads when a statement of the database may fail
FailedInsertInputs == 0..1

NextFaults ==
  \/ \E u \in Users : UploadReceive(u)
  \/ \E u \in Users, f \in FileIdInputs : UploadVersionReceive(u, f)
  \/ \E u \in Users, n \in OriginalNameInputs :
       MulterFileStart(u, n, "video/mp4")
  \/ \E u \in Users : MulterFileData(u, maxFileSize)
  \/ \E u \in Users : UploadHandler(u, "")
  \/ \E u \in Users : UploadVersionHandler(u)
  \/ \E u \in Users, k \in FailedInsertInputs :
       UploadHandlerInsertFails(u, "", k)
  \/ \E u \in Users : UploadVersionHandlerInsertFails(u)
  \/ \E u \in Users : UploadVersionHandlerUpdateFails(u)

SpecFaults == Init /\ [][NextFaults]_vars

Next ==
  \/ NextFolders
  \/ NextFiles
  \/ NextDownloads
  \/ NextKeys
  \/ NextCatalog
  \/ NextFaults
  \/ NextAuth
  \/ NextFrame
  \/ NextNames

Spec == Init /\ [][Next]_vars

----------------------------------------------------------------------------
(* Properties of the folder hierarchy *)

\* the spec's error kind Conflict: 400 'Folder with this name already exists'
IsConflict(r) ==
  r.status = 400 /\ r.error = "Folder with this name already exists"

\* the step in which the POST /create handler answers caller u
CreateFolderStep(u) ==
  /\ conn[u].pc = "body"
  /\ conn[u].op = "createFolder"
  /\ conn'[u].pc = "idle"
  /\ last'.op = "createFolder"
  /\ last'.u = u

\* a step of DELETE /:folderId that answered 200
DeleteFolderOkStep ==
  /\ conn' = conn
  /\ last'.op = "deleteFolder"
  /\ last'.status = 200

FoldersNamed(rows, name, parentId) ==
  {i \in DOMAIN rows :
     rows[i].name = name /\ rows[i].parent_folder_id = parentId}

SiblingNamesUnique ==
  \A i, j \in DOMAIN folders :
    (i # j /\ folders[i].parent_folder_id = folders[j].parent_folder_id)
      => folders[i].name # folders[j].name

\* C1: no two existing folders with the same parent (null included) have the
\* same stored name, and a CreateFolder whose sanitized name is that of an
\* existing sibling is answered Conflict and inserts no row.
C1_SiblingNamesUnique ==
  /\ []SiblingNamesUnique
  /\ [][\A u \in Users :
          (CreateFolderStep(u)
             /\ FoldersNamed(folders, last'.name, last'.parentId) # {})
          => (IsConflict(last') /\ folders' = folders
                /\ folderSeq' = folderSeq)]_vars

\* C1 witness: a Conflict was answered for a name that a root-level folder
\* holds, while the same name exists under another parent
C1_Witness ==
  /\ last.op = "createFolder"
  /\ IsConflict(last)
  /\ last.parentId = NULL
  /\ \E i, j \in DOMAIN folders :
       /\ folders[i].name = last.name
       /\ folders[j].name = last.name
       /\ folders[i].parent_folder_id = NULL
       /\ folders[j].parent_folder_id = i

\* the folders from which f is reached by following parent references
RECURSIVE AncestorsOf(_, _)
AncestorsOf(rows, d) ==
  LET p == rows[d].parent_folder_id
  IN  IF p \in DOMAIN rows THEN {p} \cup AncestorsOf(rows, p) ELSE {}

SubtreeOf(rows, f) == {f} \cup {d \in DOMAIN rows : f \in AncestorsOf(rows, d)}

\* C6: a successful DeleteFolder(f) removes f and all its descendants at any
\* depth and nothing else; ListContents on a removed id answers NotFound in
\* every later state.
C6_DeleteRemovesSubtree ==
  /\ [][DeleteFolderOkStep =>
          /\ DOMAIN folders' = DOMAIN folders \ SubtreeOf(folders, last'.folderId)
          /\ \A i \in DOMAIN folders' : folders'[i] = folders[i]]_vars
  /\ [](\A id \in deletedFolderIds :
          /\ id \notin DOMAIN folders
          /\ ListContents(DecStr(id)).status = 404)

\* C6 witness: one DeleteFolder removed three folders, and the ids stay absent
C6_Witness ==
  /\ last.op = "deleteFolder"
  /\ last.status = 200
  /\ Cardinality(last.removed) >= 3
  /\ last.removed \subseteq deletedFolderIds

\* C9: of two CreateFolder requests with the same name and parent that are
\* answered one after the other, the first of which created the folder, the
\* second is answered Conflict and exactly one such folder exists.
C9_ConcurrentCreateOneWins ==
  [][\A u \in Users :
       (/\ CreateFolderStep(u)
        /\ last.op = "createFolder"
        /\ last.u # u
        /\ last.status = 201
        /\ last'.name = last.name
        /\ last'.parentId = last.parentId)
       => (/\ IsConflict(last')
           /\ folders' = folders
           /\ Cardinality(FoldersNamed(folders', last.name, last.parentId)) = 1)]_vars

\* C9 witness: a root-level CreateFolder was answered Conflict because the
\* other caller's request had just created the folder, while no third
\* request was in flight
C9_Witness ==
  /\ last.op = "createFolder"
  /\ IsConflict(last)
  /\ last.parentId = NULL
  /\ \E i \in DOMAIN folders :
       /\ folders[i].name = last.name
       /\ folders[i].parent_folder_id = NULL
       /\ folders[i].created_by # last.u
       /\ i = folderSeq

\* a step of DELETE /:folderId requested by caller u
DeleteFolderStep(u) ==
  /\ conn' = conn
  /\ last'.op = "deleteFolder"
  /\ last'.u = u

\* C14: DeleteFolder on an id that no folder has is answered NotFound (404),
\* and on a folder that the caller did not create PermissionDenied (403); in
\* both cases, and whenever the answer is not 200, the folders are unchanged.
C14_DeleteFolderErrors ==
  [][\A u \in Users :
       (DeleteFolderStep(u) /\ last'.folderId # NaN)
       => /\ last'.folderId \notin DOMAIN folders
               => (last'.status = 404 /\ UNCHANGED folderVars)
          /\ (/\ last'.folderId \in DOMAIN folders
              /\ folders[last'.folderId].created_by # u)
               => (last'.status = 403 /\ UNCHANGED folderVars)
          /\ last'.status # 200 => UNCHANGED folderVars]_vars

\* C14 witness: a caller was refused the deletion of a folder created by the
\* other caller, which has a subfolder, after an earlier deletion had made
\* some id absent
C14_Witness ==
  /\ last.op = "deleteFolder"
  /\ last.status = 403
  /\ last.folderId \in DOMAIN folders
  /\ folders[last.folderId].created_by # last.u
  /\ \E d \in DOMAIN folders : folders[d].parent_folder_id = last.folderId
  /\ deletedFolderIds # {}

\* C23: for every existing folder f, ResolvePath(f) terminates and returns
\* the ancestor chain root first: the first element has no parent, the
\* parent of each later element is the element before it, the last element
\* is f, and each element carries the folder's name.
C23_ResolvePathRootFirst ==
  \A f \in DOMAIN folders :
    LET r == ResolvePath(DecStr(f))
        p == r.path
    IN  /\ r.status = 200
        /\ r.terminated
        /\ Len(p) >= 1
        /\ \A k \in 1..Len(p) :
             /\ p[k].id \in DOMAIN folders
             /\ p[k].name = folders[p[k].id].name
        /\ folders[p[1].id].parent_folder_id = NULL
        /\ \A k \in 2..Len(p) :
             folders[p[k].id].parent_folder_id = p[k - 1].id
        /\ p[Len(p)].id = f

\* C23 witness: a folder two levels below the root has a path of three
\* elements
C23_Witness ==
  \E f \in DOMAIN folders :
    LET r == ResolvePath(DecStr(f))
    IN  /\ r.terminated
        /\ Len(r.path) = 3
        /\ r.path[3].id = f

\* C30: every step that removes folders is a successful DeleteFolder of a
\* requester u on a target that u created, and the folders removed are the
\* target and all its descendants, whoever created them.
C30_OwnershipOfTargetOnly ==
  [][DOMAIN folders \ DOMAIN folders' # {} =>
       \E u \in Users :
         /\ DeleteFolderStep(u)
         /\ last'.status = 200
         /\ last'.folderId \in DOMAIN folders
         /\ folders[last'.folderId].created_by = u
         /\ DOMAIN folders \ DOMAIN folders'
              = SubtreeOf(folders, last'.folderId)]_vars

\* C30 witness: a DeleteFolder has removed, with its target, a folder that
\* another user created
C30_Witness ==
  /\ last.op = "deleteFolder"
  /\ last.status = 200
  /\ last.folderId \in last.removed
  /\ \E c \in last.creators : c # last.u

----------------------------------------------------------------------------
(* Properties of files and versions *)

VersionNumbersOf(fileId) ==
  {file_versions[i].version_number : i \in VersionRowsOf(fileId)}

\* the step in which the POST /upload/:fileId handler answers caller u
UploadVersionStep(u) ==
  /\ MulterFinished(u)
  /\ conn[u].op = "uploadVersion"
  /\ conn'[u].pc = "idle"
  /\ last'.op = "uploadVersion"
  /\ last'.by = "handler"

\* C2: for every file, currentVersion is the version_number of one of its
\* file_versions rows, or is 1 when the file has no such row.
C2_CurrentVersionExists ==
  \A f \in DOMAIN files :
    \/ files[f].current_version \in VersionNumbersOf(f)
    \/ (VersionRowsOf(f) = {} /\ files[f].current_version = 1)

\* C2 witness: after a restore the current version is an older row
C2_Witness ==
  \E f \in DOMAIN files :
    /\ last.op = "restore"
    /\ last.status = 200
    /\ last.fileId = f
    /\ files[f].current_version \in VersionNumbersOf(f)
    /\ \E n \in VersionNumbersOf(f) : n > files[f].current_version

\* C3: the successful AddVersion calls on a file return 2, 3, ..., N+1 in
\* that order without duplicates (the rows in insertion order carry these
\* numbers), and right after the N-th one currentVersion is N+1.
C3_SequentialVersionNumbers ==
  \A f \in DOMAIN files :
    LET rows == VersionRowsOf(f)
        N == Cardinality(rows)
    IN  /\ \A i \in rows :
             file_versions[i].version_number
               = 1 + Cardinality({j \in rows : j <= i})
        /\ (last.op = "uploadVersion" /\ last.status = 201 /\ last.fileId = f)
             => /\ last.versionNumber = N + 1
                /\ files[f].current_version = N + 1

\* C3 witness: the third AddVersion on a file has just returned 4
C3_Witness ==
  /\ last.op = "uploadVersion"
  /\ last.status = 201
  /\ last.versionNumber = 4
  /\ VersionNumbersOf(last.fileId) = {2, 3, 4}

\* C4: right after a successful RestoreVersion(fileId, v), ListVersions has
\* exactly one entry flagged isCurrent, and it is version v.
C4_RestoreThenListOneCurrent ==
  (last.op = "restore" /\ last.status = 200) =>
    LET listed == ListVersions(DecStr(last.fileId))
        current == {k \in 1..Len(listed.versions) : listed.versions[k].isCurrent}
    IN  /\ listed.status = 200
        /\ Cardinality(current) = 1
        /\ \A k \in current :
             listed.versions[k].versionNumber = last.versionNumber

\* C4 witness: a version that is not the newest was restored
C4_Witness ==
  /\ last.op = "restore"
  /\ last.status = 200
  /\ Len(ListVersions(DecStr(last.fileId)).versions) >= 2
  /\ ~ListVersions(DecStr(last.fileId)).versions[1].isCurrent

\* a step of POST /restore/:fileId/:versionNumber
RestoreVersionStep ==
  /\ conn' = conn
  /\ last'.op = "restore"

C5_RestoreFirstVersion ==
  (/\ last.op = "restore"
   /\ last.versionNumber = 1
   /\ last.fileId \in DOMAIN files
   /\ Cardinality(VersionRowsOf(last.fileId)) = 1)
  => LET listed == ListVersions(DecStr(last.fileId))
     IN  /\ last.status = 200
         /\ files[last.fileId].current_version = 1
         /\ Len(listed.versions) = 2
         /\ listed.versions[1].versionNumber = 2
         /\ listed.versions[2].versionNumber = 1
         /\ listed.versions[2].isCurrent
         /\ ~listed.versions[1].isCurrent

\* the blob of the version that current_version designates: the row of that
\* number, or the file's own upload for the implicit version 1
CurrentBlob(f) ==
  LET row == VersionRow(f, files[f].current_version)
  IN  IF row # {}
        THEN file_versions[CHOOSE i \in row : TRUE].file_path
        ELSE files[f].file_path

\* C7: the default download of a file streams the blob of the version whose
\* number is the file's currentVersion.
C7_DownloadStreamsCurrentVersion ==
  \A f \in DOMAIN files : DownloadFile(DecStr(f)).streamed = CurrentBlob(f)

\* C8: concurrent AddVersion requests on one file never obtain the same
\* nextVersion: the version rows of a file carry distinct numbers, and every
\* request whose handler reaches the INSERT is answered 201 with a number no
\* earlier row of the file has.
C8_ConcurrentVersionsDistinct ==
  /\ [](\A i, j \in DOMAIN file_versions :
          (i # j /\ file_versions[i].file_id = file_versions[j].file_id)
            => file_versions[i].version_number
                 # file_versions[j].version_number)
  /\ [][\A u \in Users :
          (/\ UploadVersionStep(u)
           /\ Len(conn[u].stored) > 0
           /\ parseInt(conn[u].fileId) \in DOMAIN files)
          => (/\ last'.status = 201
              /\ last'.versionNumber
                   \notin VersionNumbersOf(parseInt(conn[u].fileId))
              /\ \E i \in DOMAIN file_versions' \ DOMAIN file_versions :
                   /\ file_versions'[i].file_id = parseInt(conn[u].fileId)
                   /\ file_versions'[i].version_number = last'.versionNumber
                   /\ file_versions'[i].file_path = conn[u].stored[1].path)]_vars

\* C8 witness: one AddVersion was answered 201 while another caller's
\* AddVersion for the same file, whose bytes are already stored, is in flight
C8_Witness ==
  /\ last.op = "uploadVersion"
  /\ last.status = 201
  /\ \E w \in Users :
       /\ MulterFinished(w)
       /\ conn[w].op = "uploadVersion"
       /\ parseInt(conn[w].fileId) = last.fileId
       /\ Len(conn[w].stored) = 1
       /\ \E i \in VersionRowsOf(last.fileId) :
            /\ file_versions[i].version_number = last.versionNumber
            /\ file_versions[i].uploaded_by # w

\* the catalog rows that reference blobs
RegisteredPaths ==
  {files[f].file_path : f \in DOMAIN files}
    \cup {file_versions[i].file_path : i \in DOMAIN file_versions}

UploadRejected(u) ==
  /\ conn'[u].pc = "idle"
  /\ last'.by = "multer"
  /\ last'.op = conn[u].op
  /\ last'.status >= 400
  /\ PathsOf(conn[u].stored \o conn[u].cur) \cap DOMAIN disk' = {}
  /\ UNCHANGED fileVars

\* C18: an upload (CreateFile or AddVersion) with a file part whose content
\* type is not in the allow-list, or whose data is longer than the configured
\* maximum, is rejected; right after the rejection no blob of that upload
\* exists and no files or file_versions row has been added.
C18_UploadRejected ==
  [][\A u \in Users :
       /\ \A n \in OriginalNameInputs, m \in MimeTypeInputs :
            (MulterFileStart(u, n, m) /\ ~isValidMimeType(m))
              => UploadRejected(u)
       /\ \A length \in FileLengthInputs :
            (MulterFileData(u, length) /\ length > maxFileSize)
              => UploadRejected(u)]_vars

\* C18 witness: an AddVersion upload was rejected as too large, and the
\* upload directory holds the registered blobs of the file and of an earlier
\* version and nothing else
C18_Witness ==
  /\ last.op = "uploadVersion"
  /\ last.by = "multer"
  /\ last.error = "File too large"
  /\ file_versions # <<>>
  /\ \A u \in Users : conn[u].pc = "idle"
  /\ DOMAIN disk = RegisteredPaths

\* the catalog rows that hold a storage key
RowRefs ==
  {<<"files", f>> : f \in DOMAIN files}
    \cup {<<"file_versions", i>> : i \in DOMAIN file_versions}

StorageKeyOf(ref) ==
  IF ref[1] = "files" THEN files[ref[2]].file_path
  ELSE file_versions[ref[2]].file_path

\* C13: no two catalog rows, of files and file_versions together, hold the
\* same storage key.
C13_StorageKeysNotShared ==
  \A r1, r2 \in RowRefs : r1 # r2 => StorageKeyOf(r1) # StorageKeyOf(r2)

----------------------------------------------------------------------------
(* Properties of files in folders *)

\* a step of PATCH /move/:id requested by caller u
MoveFileStep(u) ==
  /\ conn' = conn
  /\ last'.op = "move"
  /\ last'.u = u

\* the step in which the POST /upload handler answers caller u
UploadStep(u) ==
  /\ MulterFinished(u)
  /\ conn[u].op = "upload"
  /\ conn'[u].pc = "idle"
  /\ last'.op = "upload"
  /\ last'.by = "handler"

\* C15: MoveFile is answered NotFound (404) when no file has the id, or when
\* a target folder is given by the uploader and no folder has that id, and
\* PermissionDenied (403) whenever the file exists and the caller is not its
\* uploader; whenever the answer is not 200 the files are unchanged.
C15_MoveFileErrors ==
  [][\A u \in Users :
       (MoveFileStep(u) /\ last'.fileId # NaN)
       => LET f == last'.fileId
              target == ParseOptionalId(last'.folderId)
          IN  /\ f \notin DOMAIN files => last'.status = 404
              /\ (f \in DOMAIN files /\ files[f].uploaded_by # u)
                   => last'.status = 403
              /\ (/\ f \in DOMAIN files
                  /\ files[f].uploaded_by = u
                  /\ last'.folderId # ""
                  /\ target \notin DOMAIN folders)
                   => last'.status = 404
              /\ last'.status # 200 => UNCHANGED fileVars]_vars

C20_CreateFileFolder ==
  [][\A u \in Users :
       (UploadStep(u) /\ Len(conn[u].stored) > 0)
       => /\ (last'.folderId # NULL /\ last'.folderId \notin DOMAIN folders)
               => (last'.status = 404 /\ UNCHANGED fileVars)
          /\ last'.status = 201
               => /\ last'.ids # {}
                  /\ \A i \in last'.ids :
                       /\ i \in DOMAIN files' \ DOMAIN files
                       /\ files'[i].current_version = 1
                       /\ files'[i].folder_id = last'.folderId]_vars

\* C19: when the catalog insert of an upload (CreateFile or AddVersion)
\* fails after the bytes were stored, no blob of that upload is left in the
\* upload directory.
C19_FailedInsertRemovesBlob ==
  (/\ last.op \in {"upload", "uploadVersion"}
   /\ last.by = "handler"
   /\ last.status = 500)
  => last.paths \cap DOMAIN disk = {}

\* folder ids that parseInt does not read as a number
MalformedFolderIdInputs == {"x"}

\* C22: ListContents with a folder id that is given and is not a number is
\* answered InvalidInput (400) with no folder and no file listing.
C22_MalformedFolderIdRejected ==
  \A raw \in MalformedFolderIdInputs :
    /\ ListContents(raw).status = 400
    /\ ListContents(raw).folders = {}
    /\ ListContents(raw).files = {}

SearchQueryInputs ==
  { <<"c">>, <<".", "m">>, <<"x">>, <<"_">>, <<"%">>, <<"C">>, <<" ", "c">> }

\* s contains q as a literal substring
ContainsLiteral(s, q) ==
  \E k \in 0..(Len(s) - Len(q)) : SubSeq(s, k + 1, k + Len(q)) = q

\* C24: Search(query) returns exactly the files whose original filename
\* contains the query as a literal substring.
C24_SearchLiteralSubstring ==
  \A q \in SearchQueryInputs :
    Search(q).files =
      {i \in DOMAIN files : ContainsLiteral(files[i].original_filename, q)}

IsSuffix(p, s) == Len(p) <= Len(s) /\ SubSeq(s, Len(s) - Len(p) + 1, Len(s)) = p

\* C27: the key generateUniqueFilename gives to an original filename holds
\* no '/' and no '\', no two dots in a row, none of < > : " | ? *, and
\* ends with the extension of the original filename.
C27_StorageKeyClean ==
  last.op = "generateUniqueFilename" =>
    LET key == last.key
    IN  /\ \A k \in 1..Len(key) : key[k] \notin PathSeparators \cup ReservedChars
        /\ \A k \in 1..(Len(key) - 1) : ~(key[k] = "." /\ key[k + 1] = ".")
        /\ IsSuffix(extname(last.originalname), key)

\* the files whose folder_id is the id of a folder that was deleted
OrphanedFiles == {f \in DOMAIN files : files[f].folder_id \in deletedFolderIds}

ListContentsInputs ==
  {""} \cup {DecStr(n) : n \in 0..(MaxFolderId + 1)} \cup MalformedFolderIdInputs

\* C28: the id of a deleted folder is the id of no folder afterwards, and a
\* file whose folder_id is such an id is in the listing of no folder id
\* (absent, any number, malformed), while GET /list and a search for its
\* name return it and GET /stats counts it.
C28_OrphanedFilesUnlisted ==
  /\ deletedFolderIds \cap DOMAIN folders = {}
  /\ \A f \in OrphanedFiles :
       /\ \A raw \in ListContentsInputs : f \notin ListContents(raw).files
       /\ f \in ListFiles.files
       /\ f \in Search(files[f].original_filename).files
  /\ ListFiles.total >= Cardinality(OrphanedFiles)
  /\ Stats.fileCount >= Cardinality(OrphanedFiles)
  /\ Stats.filesTotal >= SumFileSize(files, OrphanedFiles)

\* C28 witness: a file is left with the id of a deleted folder, and a
\* folder has been created since
C28_Witness ==
  \E f \in OrphanedFiles, i \in DOMAIN folders :
    /\ i > files[f].folder_id
    /\ last.op # "deleteFolder"

\* the step answers NotFound to the upload stored, whose blobs are in the
\* upload directory before and after it, and adds no row: the blobs are
\* left with no row that holds their path
RejectedNotFoundKeepsBlob(stored) ==
  /\ last'.status = 404
  /\ stored # <<>>
  /\ PathsOf(stored) \subseteq DOMAIN disk
  /\ UNCHANGED <<fileVars, blobVars>>
  /\ PathsOf(stored) \cap RegisteredPaths' = {}

C26_AddVersionAtomic ==
  [][\A i \in DOMAIN file_versions' \ DOMAIN file_versions :
       files'[file_versions'[i].file_id].current_version
         = file_versions'[i].version_number]_vars

\* the two rows agree on every column but current_version and folder_id
SameFixedColumns(a, b) ==
  /\ a.filename = b.filename
  /\ a.original_filename = b.original_filename
  /\ a.file_path = b.file_path
  /\ a.file_size = b.file_size
  /\ a.mime_type = b.mime_type
  /\ a.uploaded_by = b.uploaded_by

\* the step leaves every files row but fileId as it is, and adds none
OtherFilesUnchanged(fileId) ==
  /\ DOMAIN files' = DOMAIN files
  /\ \A i \in DOMAIN files : i # fileId => files'[i] = files[i]

----------------------------------------------------------------------------
(* Properties of the downloads *)

\* the resolved form of p is the storage root or lies below it
InsideRoot(p) ==
  \/ resolve(p) = resolve(uploadDir)
  \/ IsPrefix(resolve(uploadDir) \o <<"/">>, resolve(p))

IsDownload(r) == r.op \in {"download", "downloadVersion"}

\* C11: a download (of a file or of a version) whose stored path does not
\* resolve to a place inside the storage root is answered AccessDenied (403)
\* and the path is neither opened nor streamed.
C11_OutsidePathsDenied ==
  (IsDownload(last) /\ last.path # <<>> /\ ~InsideRoot(last.path))
    => /\ last.status = 403
       /\ last.streamed = <<>>
       /\ \A k \in 1..Len(last.calls) : last.calls[k] # "createReadStream"

\* C12: in a download, the containment test precedes every file system call
\* on the stored path (existence test or read).
C12_CheckBeforeAccess ==
  IsDownload(last)
    => \A k \in 1..Len(last.calls) :
         last.calls[k] \in {"existsSync", "createReadStream"}
           => \E j \in 1..(k - 1) : last.calls[j] = "startsWith"

----------------------------------------------------------------------------
(* Properties of authentication *)

\* C21: a request without a bearer token of an existing user (id and
\* username matching) receives no stored bytes and changes neither the
\* catalog nor the upload directory.
C21_AuthenticationRequired ==
  /\ [](last.by \in {"auth", "static"} /\ last.auth = NULL
          => last.streamed = <<>>)
  /\ [][(last'.by \in {"auth", "static"} /\ last'.auth = NULL /\ last' # last)
          => UNCHANGED <<folderVars, fileVars, blobVars>>]_vars

====
